---- MODULE Spec2Model ----
(***************************************************************************)
(* A model of app.py: LinkExtractor.extract_links_from_url (the per-URL    *)
(* extraction with its renderer life cycle, anchor classification and      *)
(* de-duplication), DocxManager.create_document / _add_hyperlink (document *)
(* assembly with the three-tier hyperlink fallback) and the batch loop of  *)
(* main().  Python strings are TLA+ strings; str methods are operators     *)
(* that compute what the method computes.                                  *)
(***************************************************************************)
EXTENDS Integers, Sequences, FiniteSets, TLC

VARIABLES
    url,            \* argument of the running extract_links_from_url call
    epc,            \* position inside extract_links_from_url
    driver,         \* "none" | "live" | "quit": the Selenium driver of the call
    quit_count,     \* number of driver.quit() calls made by the call
    polls,          \* polls of the readiness predicate made by wait.until
    polled,         \* the title the readiness predicate saw at its last poll
    page_title,     \* local page_title
    raw_links,      \* local raw_links (what JS_CRAWL_ANCHORS returned)
    fault,          \* which step of the call failed ("none" when none did)
    result,         \* the dict the call returns
    url_lines,      \* the lines of the text area when the batch was started
    urls,           \* main(): the list urls of the running batch
    idx,            \* main(): 1-based position of the batch loop
    mpc,            \* position inside main()
    processing,     \* st.session_state.processing
    extracted_data, \* st.session_state.extracted_data
    lib,            \* behaviour of the document library during create_document
    docx_buffer,    \* what create_document returned (NoDoc before any call)
    h_par,          \* _add_hyperlink: the paragraph's content before the call
    h_url,          \* _add_hyperlink: argument url
    h_text,         \* _add_hyperlink: argument text
    h_out           \* _add_hyperlink: outcome of the call (NoCall before it)

extract_vars == <<url, epc, driver, quit_count, polls, polled, page_title, raw_links, fault, result>>
main_vars == <<url_lines, urls, idx, mpc, processing, extracted_data>>
doc_vars == <<lib, docx_buffer>>
hyper_vars == <<h_par, h_url, h_text, h_out>>
vars == <<extract_vars, main_vars, doc_vars, hyper_vars>>

(***************************************************************************)
(* Bounds of the model.                                                    *)
(***************************************************************************)
MaxAnchors == 3     \* longest raw anchor list the crawl script returns
MaxPolls == 2       \* polls of the title before the 25 s deadline passes
MaxUrls == 2        \* most lines typed into the text area
MaxResults == 2     \* longest result list handed to create_document

(***************************************************************************)
(* Python values.                                                          *)
(***************************************************************************)
None == "<None>"    \* Python None / JavaScript null

(***************************************************************************)
(* str operations.                                                         *)
(***************************************************************************)
\* `sub in s`
Contains(s, sub) ==
    \E i \in 1..(Len(s) - Len(sub) + 1) : SubSeq(s, i, i + Len(sub) - 1) = sub

\* s.startswith(p)
StartsWith(s, p) == Len(s) >= Len(p) /\ SubSeq(s, 1, Len(p)) = p

Upper == "ABCDEFGHIJKLMNOPQRSTUVWXYZ"
Lower == "abcdefghijklmnopqrstuvwxyz"

LowerOf ==
    [c \in {SubSeq(Upper, i, i) : i \in 1..Len(Upper)} |->
        LET i == CHOOSE j \in 1..Len(Upper) : SubSeq(Upper, j, j) = c
        IN  SubSeq(Lower, i, i)]

LowerChar(c) == IF c \in DOMAIN LowerOf THEN LowerOf[c] ELSE c

\* s.lower()
RECURSIVE LowerStr(_)
LowerStr(s) ==
    IF s = "" THEN ""
    ELSE LowerChar(SubSeq(s, 1, 1)) \o LowerStr(SubSeq(s, 2, Len(s)))

Whitespace == {" ", "\t", "\n", "\r", "\f"}

RECURSIVE LStrip(_)
LStrip(s) ==
    IF s # "" /\ SubSeq(s, 1, 1) \in Whitespace
    THEN LStrip(SubSeq(s, 2, Len(s)))
    ELSE s

RECURSIVE RStrip(_)
RStrip(s) ==
    IF s # "" /\ SubSeq(s, Len(s), Len(s)) \in Whitespace
    THEN RStrip(SubSeq(s, 1, Len(s) - 1))
    ELSE s

\* s.strip()
Strip(s) == RStrip(LStrip(s))

\* All sequences over S of length 0..n
SeqsUpTo(S, n) == UNION {[1..k -> S] : k \in 0..n}

Range(s) == {s[i] : i \in DOMAIN s}

(***************************************************************************)
(* LinkExtractor.extract_links_from_url: classification of raw anchors.    *)
(***************************************************************************)
ContentMarker == "release-notes"

NoiseWords ==
    <<"home", "login", "support", "contact", "privacy", "terms", "footer",
      "navigation", "refresh", "print">>

\* lines 97-100: text and href must both be truthy
NonEmpty(item) == Strip(item.text) # "" /\ item.href # ""

\* lines 103-104 (HasMarkerAnyHref: the loop without this test)
HasMarkerAnyHref(href) == TRUE
HasMarker(href) == Contains(href, ContentMarker)

\* line 107 (IsNoiseCaseSensitive: the test without .lower())
IsNoiseCaseSensitive(text) == \E k \in 1..Len(NoiseWords) : Contains(text, NoiseWords[k])
IsNoise(text) == \E k \in 1..Len(NoiseWords) : Contains(LowerStr(text), NoiseWords[k])

\* the three `continue` guards of the loop at lines 96-108
Kept(item) ==
    /\ NonEmpty(item)
    /\ HasMarker(item.href)
    /\ ~IsNoise(Strip(item.text))

\* lines 110-114
MakeLink(item) ==
    [text |-> Strip(item.text), url |-> item.href, original_href |-> item.href]

\* lines 95-114: the list links
FilterLinks(raw) ==
    LET kept == SelectSeq(raw, Kept)
    IN  [k \in 1..Len(kept) |-> MakeLink(kept[k])]

\* lines 123-128: the loop over links with the set seen_urls
RECURSIVE DedupeFrom(_, _)
DedupeFrom(links, seen_urls) ==
    IF links = <<>> THEN <<>>
    ELSE IF Head(links).url \notin seen_urls
         THEN <<Head(links)>> \o DedupeFrom(Tail(links), seen_urls \cup {Head(links).url})
         ELSE DedupeFrom(Tail(links), seen_urls)

\* lines 123-128 (UniqueLinksKeepAll: no seen_urls test; UniqueLinksKeepLast:
\* the last occurrence of a url kept instead of the first)
UniqueLinksKeepAll(links) == links

Reverse(s) == [i \in 1..Len(s) |-> s[Len(s) + 1 - i]]
UniqueLinksKeepLast(links) == Reverse(DedupeFrom(Reverse(links), {}))

UniqueLinks(links) == DedupeFrom(links, {})

\* lines 95-128
Classify(raw) == UniqueLinks(FilterLinks(raw))

(***************************************************************************)
(* Inputs of one extraction: what the browser shows for the URL.           *)
(***************************************************************************)
SampleUrls == {"https://x/p1", "https://y/p2"}

\* values driver.title takes while and after the page loads
Titles == {"", "Login", "Help And Training Community", "Permissions",
           "Login Flows"}

\* anchors as JS_CRAWL_ANCHORS (lines 70-90) pushes them: href is truthy and
\* text is innerText.trim()
Anchors ==
    { [href |-> "https://x/release-notes/a", text |-> "Feature A"],
      [href |-> "https://x/login",           text |-> "Login"],
      [href |-> "https://x/docs/api",        text |-> "API Guide"],
      [href |-> "https://x/release-notes/a", text |-> "Feature A dup"],
      [href |-> "https://x/release-notes/a", text |-> "Homepage"],
      [href |-> "https://x/release-notes/b", text |-> "Feature B"],
      [href |-> "https://x/release-notes/c", text |-> ""] }

AllRawLinks == SeqsUpTo(Anchors, MaxAnchors)

\* three pages: no anchors; scenario A of the specification; a page whose
\* first anchor is a navigation link to a release note
SamplePages ==
    { <<>>,
      << [href |-> "https://x/release-notes/a", text |-> "Feature A"],
         [href |-> "https://x/login",           text |-> "Login"],
         [href |-> "https://x/release-notes/a", text |-> "Feature A dup"] >>,
      << [href |-> "https://x/release-notes/a", text |-> "Homepage"],
         [href |-> "https://x/release-notes/b", text |-> "Feature B"],
         [href |-> "https://x/release-notes/a", text |-> "Feature A"] >> }

\* nodes as JS_TOC_TREE (lines 133-148) serialises them
TocLeaf(text, u) == [text |-> text, url |-> u, children |-> <<>>]

TocGroup ==
    [text |-> "Group", url |-> None,
     children |-> << TocLeaf("Feature A", "https://x/release-notes/a"),
                     TocLeaf("Feature B", "https://x/release-notes/b") >>]

TocNested ==
    [text |-> "Top", url |-> "https://x/release-notes/t",
     children |-> << [text |-> "Mid", url |-> None,
                      children |-> << TocLeaf("Deep", "https://x/release-notes/d") >>] >>]

SampleTocs == { <<>>, <<TocGroup>>, <<TocNested, TocLeaf("Plain", None)>> }

(***************************************************************************)
(* LinkExtractor.extract_links_from_url: the call, step by step.           *)
(***************************************************************************)
NoResult == [links |-> <<>>, toc_tree |-> <<>>, page_title |-> None]

\* line 51
InitFailedResult ==
    [links |-> <<>>, toc_tree |-> <<>>,
     page_title |-> "Error: WebDriver initialization failed"]

\* line 162
TimeoutResult(u) ==
    [links |-> <<>>, toc_tree |-> <<>>, page_title |-> "Error: Timeout for " \o u]

\* line 167
ErrorResult(u) ==
    [links |-> <<>>, toc_tree |-> <<>>, page_title |-> "Error: " \o u]

\* lines 159, 163: the except clauses of the try statement
\* (CaughtTimeoutOnly: without the clause of line 163)
CaughtTimeoutOnly(kind) == kind = "TimeoutException"
Caught(kind) == kind \in {"TimeoutException", "Exception"}

\* line 58: the predicate handed to wait.until
Ready(title) ==
    /\ title # ""
    /\ ~Contains(title, "Help And Training Community")
    /\ ~Contains(title, "Login")

\* lines 168-170: the finally clause; TRUE when it calls driver.quit()
\* (QuitsNever: without the call)
QuitsNever(d) == FALSE
Quits(d) == d = "live"

\* An exception of class kind raised inside the try block at the step named
\* by what: lines 159-167 choose the returned dict, then finally runs.
Raise(kind, what) ==
    /\ fault' = what
    /\ IF Caught(kind)
       THEN /\ result' = IF kind = "TimeoutException"
                         THEN TimeoutResult(url) ELSE ErrorResult(url)
            /\ epc' = "finally"
       ELSE /\ result' = result
            /\ epc' = "finally_exc"

\* lines 25-43, 48-51
GetSeleniumDriver ==
    /\ epc = "start"
    /\ \/ /\ driver' = "live"
          /\ epc' = "get"
          /\ UNCHANGED <<fault, result>>
       \/ /\ driver' = "none"
          /\ fault' = "init"
          /\ result' = InitFailedResult
          /\ epc' = "returned"
    /\ UNCHANGED <<url, quit_count, polls, polled, page_title, raw_links>>

\* line 54
DriverGet ==
    /\ epc = "get"
    /\ \/ /\ epc' = "wait"
          /\ UNCHANGED <<fault, result>>
       \/ Raise("Exception", "navigation")
       \/ Raise("TimeoutException", "navigation_timeout")
    /\ UNCHANGED <<url, driver, quit_count, polls, polled, page_title, raw_links>>

\* lines 57-58: one poll of wait.until; the deadline passes after MaxPolls
WaitPoll ==
    /\ epc = "wait"
    /\ \/ \E t \in Titles :
            /\ polled' = t
            /\ IF Ready(t)
               THEN /\ epc' = "title"
                    /\ UNCHANGED <<polls, fault, result>>
               ELSE IF polls + 1 < MaxPolls
                    THEN /\ polls' = polls + 1
                         /\ UNCHANGED <<epc, fault, result>>
                    ELSE /\ polls' = polls + 1
                         /\ Raise("TimeoutException", "readiness_timeout")
       \/ /\ Raise("Exception", "readiness")
          /\ UNCHANGED <<polls, polled>>
    /\ UNCHANGED <<url, driver, quit_count, page_title, raw_links>>

\* line 60
ReadTitle(titles) ==
    /\ epc = "title"
    /\ \E t \in titles :
          /\ page_title' = t
          /\ epc' = "crawl"
    /\ UNCHANGED <<url, driver, quit_count, polls, polled, raw_links, fault, result>>

\* lines 92-93
CrawlAnchors(choices) ==
    /\ epc = "crawl"
    /\ \/ \E raw \in choices :
             /\ raw_links' = raw
             /\ epc' = "toc"
             /\ UNCHANGED <<fault, result>>
       \/ /\ Raise("Exception", "crawl_script")
          /\ UNCHANGED raw_links
       \/ /\ Raise("TimeoutException", "crawl_timeout")
          /\ UNCHANGED raw_links
    /\ UNCHANGED <<url, driver, quit_count, polls, polled, page_title>>

\* lines 95-157: classification, the TOC script and the return statement
BuildResult(tocs) ==
    /\ epc = "toc"
    /\ \/ \E toc \in tocs :
             /\ result' = [links |-> Classify(raw_links), toc_tree |-> toc,
                           page_title |-> page_title]
             /\ epc' = "finally"
             /\ UNCHANGED fault
       \/ Raise("Exception", "toc_script")
       \/ Raise("TimeoutException", "toc_timeout")
    /\ UNCHANGED <<url, driver, quit_count, polls, polled, page_title, raw_links>>

\* lines 168-170
Finally ==
    /\ epc \in {"finally", "finally_exc"}
    /\ IF Quits(driver)
       THEN driver' = "quit" /\ quit_count' = quit_count + 1
       ELSE UNCHANGED <<driver, quit_count>>
    /\ epc' = IF epc = "finally" THEN "returned" ELSE "raised"
    /\ UNCHANGED <<url, polls, polled, page_title, raw_links, fault, result>>

\* line 45: the state of a call that has just been entered
EnterExtract(u) ==
    /\ url' = u
    /\ epc' = "start"
    /\ driver' = "none"
    /\ quit_count' = 0
    /\ polls' = 0
    /\ polled' = None
    /\ page_title' = None
    /\ raw_links' = <<>>
    /\ fault' = "none"
    /\ result' = NoResult

(***************************************************************************)
(* Values of the variables of a part of the program that is not running.   *)
(***************************************************************************)
NoDoc == [status |-> "not called", blocks |-> <<>>]
NoCall == [items |-> <<>>, raised |-> FALSE, relate_calls |-> 0, tier |-> -1]
NoLib == [rejected |-> {}, splice_fails |-> FALSE, build_fails |-> FALSE]

ExtractOff ==
    /\ url = None
    /\ epc = "off"
    /\ driver = "none"
    /\ quit_count = 0
    /\ polls = 0
    /\ polled = None
    /\ page_title = None
    /\ raw_links = <<>>
    /\ fault = "none"
    /\ result = NoResult

MainOff ==
    /\ url_lines = <<>>
    /\ urls = <<>>
    /\ idx = 0
    /\ mpc = "off"
    /\ processing = FALSE
    /\ extracted_data = <<>>

DocOff == lib = NoLib /\ docx_buffer = NoDoc

HyperOff == h_par = <<>> /\ h_url = None /\ h_text = None /\ h_out = NoCall

(***************************************************************************)
(* SpecExtract: one call of extract_links_from_url from its entry, over the *)
(* sample pages.                                                           *)
(***************************************************************************)
InitExtract ==
    /\ url \in SampleUrls
    /\ epc = "start"
    /\ driver = "none"
    /\ quit_count = 0
    /\ polls = 0
    /\ polled = None
    /\ page_title = None
    /\ raw_links = <<>>
    /\ fault = "none"
    /\ result = NoResult
    /\ MainOff
    /\ DocOff
    /\ HyperOff

NextExtract ==
    \/ GetSeleniumDriver /\ UNCHANGED <<main_vars, doc_vars, hyper_vars>>
    \/ DriverGet /\ UNCHANGED <<main_vars, doc_vars, hyper_vars>>
    \/ WaitPoll /\ UNCHANGED <<main_vars, doc_vars, hyper_vars>>
    \/ ReadTitle(Titles) /\ UNCHANGED <<main_vars, doc_vars, hyper_vars>>
    \/ CrawlAnchors(SamplePages) /\ UNCHANGED <<main_vars, doc_vars, hyper_vars>>
    \/ BuildResult(SampleTocs) /\ UNCHANGED <<main_vars, doc_vars, hyper_vars>>
    \/ Finally /\ UNCHANGED <<main_vars, doc_vars, hyper_vars>>

SpecExtract == InitExtract /\ [][NextExtract]_vars

(***************************************************************************)
(* SpecClassify: the rest of a call whose crawl script (line 92) has just   *)
(* returned, for every raw anchor sequence of at most MaxAnchors anchors.  *)
(***************************************************************************)
InitClassify ==
    /\ url = "https://x/p1"
    /\ epc = "toc"
    /\ driver = "live"
    /\ quit_count = 0
    /\ polls = 0
    /\ polled = None
    /\ page_title = "Permissions"
    /\ raw_links \in AllRawLinks
    /\ fault = "none"
    /\ result = NoResult
    /\ MainOff
    /\ DocOff
    /\ HyperOff

NextClassify ==
    \/ BuildResult(SampleTocs) /\ UNCHANGED <<main_vars, doc_vars, hyper_vars>>
    \/ Finally /\ UNCHANGED <<main_vars, doc_vars, hyper_vars>>

SpecClassify == InitClassify /\ [][NextClassify]_vars

(***************************************************************************)
(* Claims about extract_links_from_url.                                    *)
(***************************************************************************)
\* the call has returned the dict built at lines 153-157
ReturnedPage == epc = "returned" /\ fault = "none"

\* an anchor that no `continue` of lines 99-108 skips, stated on the anchor
PassesFilters(item) ==
    /\ Strip(item.text) # ""
    /\ item.href # ""
    /\ Contains(item.href, "release-notes")
    /\ \A k \in 1..Len(NoiseWords) :
          ~Contains(LowerStr(Strip(item.text)), NoiseWords[k])

PassesOf == [a \in Anchors |-> PassesFilters(a)]

\* C1: the 'links' list of the result holds no two entries with the same
\* 'url', whatever raw anchor sequence the crawl script returned.
C1_UrlsDistinct ==
    \A i, j \in DOMAIN result.links :
        i # j => result.links[i].url # result.links[j].url

\* C1 witness: a returned page whose filtered anchors repeated a URL and
\* whose result still lists two links.
C1_Witness ==
    /\ ReturnedPage
    /\ Len(result.links) >= 2
    /\ \E i, j \in DOMAIN raw_links :
          /\ i # j
          /\ PassesOf[raw_links[i]]
          /\ PassesOf[raw_links[j]]
          /\ raw_links[i].href = raw_links[j].href

\* position of the first anchor of raw with the given href
FirstRaw(raw, href) ==
    CHOOSE i \in DOMAIN raw :
        raw[i].href = href /\ \A j \in 1..(i - 1) : raw[j].href # href

\* position of the first anchor of raw with the given href that passes the
\* relevance and noise filters
FirstPassing(raw, href) ==
    CHOOSE i \in DOMAIN raw :
        /\ raw[i].href = href /\ PassesOf[raw[i]]
        /\ \A j \in 1..(i - 1) : ~(raw[j].href = href /\ PassesOf[raw[j]])

\* C2 as stated: the links appear in the order in which their URLs first
\* appear in the raw anchor sequence, and each link is the first raw anchor
\* with its URL.
C2_OrderOfFirstRawAppearance ==
    ReturnedPage =>
        /\ \A a, b \in DOMAIN result.links :
              a < b => FirstRaw(raw_links, result.links[a].url)
                         < FirstRaw(raw_links, result.links[b].url)
        /\ \A a \in DOMAIN result.links :
              result.links[a].text
                 = Strip(raw_links[FirstRaw(raw_links, result.links[a].url)].text)

\* C2 amended: the links appear in the order in which their URLs first appear
\* among the raw anchors that pass the relevance and noise filters, and each
\* link is the first such anchor with its URL.
C2_OrderOfFirstPassingAppearance ==
    ReturnedPage =>
        /\ \A a \in DOMAIN result.links :
              \E i \in DOMAIN raw_links :
                  raw_links[i].href = result.links[a].url /\ PassesOf[raw_links[i]]
        /\ \A a, b \in DOMAIN result.links :
              a < b => FirstPassing(raw_links, result.links[a].url)
                         < FirstPassing(raw_links, result.links[b].url)
        /\ \A a \in DOMAIN result.links :
              result.links[a].text
                 = Strip(raw_links[FirstPassing(raw_links, result.links[a].url)].text)

\* C2 witness: a returned page with two links of different URLs, one of which
\* occurred twice among the passing anchors.
C2_Witness ==
    /\ ReturnedPage
    /\ Len(result.links) = 2
    /\ \E i, j \in DOMAIN raw_links :
          /\ i < j
          /\ PassesOf[raw_links[i]]
          /\ PassesOf[raw_links[j]]
          /\ raw_links[i].href = raw_links[j].href
          /\ raw_links[i].text # raw_links[j].text

\* C3: no link of the result has a text whose lower-cased form contains a
\* noise keyword, and every anchor that passed the content-marker filter with
\* such a text is absent from the result.
C3_NoNoise ==
    /\ \A a \in DOMAIN result.links :
          \A k \in 1..Len(NoiseWords) :
              ~Contains(LowerStr(result.links[a].text), NoiseWords[k])
    /\ ReturnedPage =>
          \A i \in DOMAIN raw_links :
              ( /\ Contains(raw_links[i].href, "release-notes")
                /\ \E k \in 1..Len(NoiseWords) :
                      Contains(LowerStr(raw_links[i].text), NoiseWords[k]) )
              => \A a \in DOMAIN result.links :
                    ~( result.links[a].url = raw_links[i].href
                       /\ result.links[a].text = Strip(raw_links[i].text) )

\* C3 witness: a returned page with a link in the result although an anchor
\* with the content marker and a capitalised noise word was crawled.
C3_Witness ==
    /\ ReturnedPage
    /\ result.links # <<>>
    /\ \E i \in DOMAIN raw_links :
          /\ Contains(raw_links[i].href, "release-notes")
          /\ raw_links[i].text = "Homepage"

\* the three conditions of the relevance filter, stated on an anchor
Relevant(item) ==
    /\ Strip(item.text) # ""
    /\ item.href # ""
    /\ Contains(item.href, "release-notes")

\* C4: every link of the result has a non-empty trimmed text, a non-empty url
\* and a url containing 'release-notes'; when no crawled anchor satisfies
\* these conditions and no step of the call failed, the result's links are
\* empty and its title is the page's title, not an error placeholder.
C4_RelevanceFilter ==
    /\ \A a \in DOMAIN result.links :
          /\ Strip(result.links[a].text) # ""
          /\ result.links[a].url # ""
          /\ Contains(result.links[a].url, "release-notes")
    /\ (ReturnedPage /\ \A i \in DOMAIN raw_links : ~Relevant(raw_links[i]))
       => /\ result.links = <<>>
          /\ result.page_title = page_title
          /\ ~StartsWith(result.page_title, "Error:")

\* C4 witness: a returned page whose crawl found anchors, none relevant.
C4_Witness ==
    /\ ReturnedPage
    /\ Len(raw_links) >= 2
    /\ \A i \in DOMAIN raw_links : ~Relevant(raw_links[i])
    /\ result.links = <<>>

C6_DriverReleased ==
    /\ quit_count <= 1
    /\ driver = "live" => epc \notin {"returned", "raised", "off"}
    /\ (epc \in {"returned", "raised"} /\ fault # "init") =>
          driver = "quit" /\ quit_count = 1

\* C6 witness: a call that returned the timeout placeholder with its driver
\* released.
C6_Witness ==
    /\ epc = "returned"
    /\ fault = "readiness_timeout"
    /\ driver = "quit"
    /\ quit_count = 1

\* the known placeholder titles
PlaceholderTitles == {"Help And Training Community", "Login"}

\* a title that is non-empty and equal to no placeholder title
ReadyTitle(t) == t # "" /\ t \notin PlaceholderTitles

\* C14: the readiness wait succeeds exactly when the title it polls is
\* non-empty and equal to no placeholder title: a wait that succeeded saw such
\* a title, a wait that ran into the deadline never saw one, and a page
\* returned after a successful wait carries that title as its page_title.
C14_ReadinessRule ==
    /\ epc = "title" => ReadyTitle(polled)
    /\ fault = "readiness_timeout" => ~ReadyTitle(polled)
    /\ ReturnedPage => result.page_title = polled

(***************************************************************************)
(* The document library as DocxManager uses it.  A paragraph is a sequence *)
(* of items: runs and hyperlink elements; a document is a sequence of      *)
(* blocks.                                                                 *)
(***************************************************************************)
\* paragraph.add_run(text) with the run properties the code sets
TextRun(text, bold, italic, link_style) ==
    [kind |-> "run", text |-> text, target |-> None,
     bold |-> bold, italic |-> italic, link_style |-> link_style]

PlainRun(text) == TextRun(text, FALSE, FALSE, FALSE)
BoldRun(text) == TextRun(text, TRUE, FALSE, FALSE)
ItalicRun(text) == TextRun(text, FALSE, TRUE, FALSE)
LinkStyledRun(text) == TextRun(text, FALSE, FALSE, TRUE)

\* a w:hyperlink element whose r:id is the relationship to target
HyperlinkElement(text, target) ==
    [kind |-> "hyperlink", text |-> text, target |-> target,
     bold |-> FALSE, italic |-> FALSE, link_style |-> TRUE]

Heading(text, level, align) ==
    [kind |-> "heading", level |-> level, indent |-> 0, align |-> align,
     items |-> <<PlainRun(text)>>]

\* indent counts quarter inches: left_indent = Inches(0.25 * level)
Paragraph(items, indent, align) ==
    [kind |-> "paragraph", level |-> 0, indent |-> indent, align |-> align,
     items |-> items]

PageBreak ==
    [kind |-> "page_break", level |-> 0, indent |-> 0, align |-> "left",
     items |-> <<>>]

\* Characters the XML writer refuses in any text it is given (control
\* characters other than tab, newline and carriage return); "\f" stands for
\* them.
XmlIllegal == {"\f"}
XmlOk(text) == \A i \in 1..Len(text) : SubSeq(text, i, i) \notin XmlIllegal

\* Characters that end or break the markup fragment of line 284 when they
\* are spliced into it unescaped.
MarkupSpecial == {"<", "&"}
MarkupOk(text) ==
    XmlOk(text) /\ \A i \in 1..Len(text) : SubSeq(text, i, i) \notin MarkupSpecial

\* What the library does during one create_document: the URLs for which
\* part.relate_to raises, and whether the markup parser (line 286) and the
\* element builder (lines 303-325) are made to fail.
Libs ==
    [rejected : SUBSET {"https://x/release-notes/a"},
     splice_fails : BOOLEAN, build_fails : BOOLEAN]

(***************************************************************************)
(* DocxManager._add_hyperlink.  The outcome of a call: the paragraph's     *)
(* items, whether the call raised, how often part.relate_to was called and *)
(* the tier that ended the call (0: the plain run of line 273).            *)
(***************************************************************************)
Outcome(items, raised, relate_calls, tier) ==
    [items |-> items, raised |-> raised, relate_calls |-> relate_calls, tier |-> tier]

\* line 272
PlainOnly(u) == u = "" \/ ~(StartsWith(u, "http://") \/ StartsWith(u, "https://"))

\* lines 329-342: the handler of the inner try; nothing catches what it raises
FinalFallback(items, u, text, calls) ==
    IF ~XmlOk(text) THEN Outcome(items, TRUE, calls, 3)
    ELSE IF ~XmlOk(u)
         THEN Outcome(items \o <<LinkStyledRun(text), PlainRun("\n    ")>>, TRUE, calls, 3)
         ELSE Outcome(items \o <<LinkStyledRun(text), PlainRun("\n    "), LinkStyledRun(u)>>,
                      FALSE, calls, 3)

\* lines 293-327: the handler of the outer try
ElementTier(items, u, text, L, calls) ==
    LET items2 == items \o <<PlainRun("")>>                       \* line 295
    IN  IF u \in L.rejected                                       \* line 300
        THEN FinalFallback(items2, u, text, calls + 1)
        ELSE IF L.build_fails \/ ~XmlOk(text)                     \* lines 303-325
             THEN FinalFallback(items2, u, text, calls + 1)
             ELSE Outcome(items2 \o <<HyperlinkElement(text, u)>>, FALSE, calls + 1, 2)

\* lines 268-342
AddHyperlink(items, u, text, L) ==
    IF PlainOnly(u)
    THEN IF XmlOk(text)                                           \* line 273
         THEN Outcome(items \o <<PlainRun(text)>>, FALSE, 0, 0)
         ELSE ElementTier(items, u, text, L, 0)
    ELSE IF u \in L.rejected                                      \* line 281
         THEN ElementTier(items, u, text, L, 1)
         ELSE IF L.splice_fails \/ ~MarkupOk(text)                \* lines 284-287
              THEN ElementTier(items, u, text, L, 1)
              ELSE Outcome(items \o <<HyperlinkElement(text, u)>>, FALSE, 1, 1)

(***************************************************************************)
(* DocxManager.create_document.                                            *)
(***************************************************************************)
\* line 189: the text of the date run (datetime.now() formatted)
GeneratedOn == "Generated on November 04, 2026 at 09:00 PM"

\* line 469: the default of the title input
DocTitle == "Extracted Links Report"

\* line 253: "=" * 80
SeparatorLine ==
    "================================================================================"

\* what a piece of the document body came to: its blocks, and whether an
\* exception ended it
Rendered(blocks, raised) == [blocks |-> blocks, raised |-> raised]

\* line 197: sum(len(data['links']) for data in extracted_data)
\* (TotalLinksWithoutToc: counting only the results whose flat list is rendered)
RECURSIVE TotalLinksWithoutToc(_)
TotalLinksWithoutToc(data) ==
    IF data = <<>> THEN 0
    ELSE (IF Head(data).toc_tree = <<>> THEN Len(Head(data).links) ELSE 0)
         + TotalLinksWithoutToc(Tail(data))
RECURSIVE TotalLinks(_)
TotalLinks(data) ==
    IF data = <<>> THEN 0
    ELSE Len(Head(data).links) + TotalLinks(Tail(data))

\* lines 200-204
SummaryParagraph(data) ==
    Paragraph(<< BoldRun("Total Sources Processed: "),
                 PlainRun(ToString(Len(data)) \o "\n"),
                 BoldRun("Total Links Extracted: "),
                 PlainRun(ToString(TotalLinks(data))) >>, 0, "left")

\* lines 232-242: write_node applied to each node of a list, in order
RECURSIVE WriteNodes(_, _, _)
WriteNodes(nodes, level, L) ==
    IF nodes = <<>> THEN Rendered(<<>>, FALSE)
    ELSE LET node == Head(nodes)
             own == IF node.url # None /\ node.url # ""            \* line 235
                    THEN AddHyperlink(<<>>, node.url, node.text, L)
                    ELSE IF XmlOk(node.text)                       \* line 238
                         THEN Outcome(<<BoldRun(node.text)>>, FALSE, 0, 0)
                         ELSE Outcome(<<>>, TRUE, 0, 0)
             p == Paragraph(own.items, level, "left")
         IN  IF own.raised THEN Rendered(<<p>>, TRUE)
             ELSE LET kids == WriteNodes(node.children, level + 1, L)
                  IN  IF kids.raised THEN Rendered(<<p>> \o kids.blocks, TRUE)
                      ELSE LET rest == WriteNodes(Tail(nodes), level, L)
                           IN  Rendered(<<p>> \o kids.blocks \o rest.blocks, rest.raised)

\* lines 245-249: the numbered list, from number j on
RECURSIVE FlatList(_, _, _)
FlatList(links, j, L) ==
    IF links = <<>> THEN Rendered(<<>>, FALSE)
    ELSE LET link == Head(links)
             own == AddHyperlink(<<BoldRun(ToString(j) \o ". ")>>, link.url, link.text, L)
             p == Paragraph(own.items, 0, "left")
         IN  IF own.raised THEN Rendered(<<p>>, TRUE)
             ELSE LET rest == FlatList(Tail(links), j + 1, L)
                  IN  Rendered(<<p, Paragraph(<<>>, 0, "left")>> \o rest.blocks, rest.raised)

\* lines 230-249: what follows the link count of a section
\* (SectionBodyBoth: `if links` in place of `elif links`)
SectionBodyBoth(url_data, L) ==
    LET toc == WriteNodes(url_data.toc_tree, 0, L)
        flat == FlatList(url_data.links, 1, L)
    IN  Rendered(toc.blocks \o flat.blocks, toc.raised \/ flat.raised)
SectionBody(url_data, L) ==
    IF url_data.toc_tree # <<>> THEN WriteNodes(url_data.toc_tree, 0, L)
    ELSE IF url_data.links # <<>> THEN FlatList(url_data.links, 1, L)
    ELSE Rendered(<<>>, FALSE)

\* line 216
SectionHeading(i, title) == ToString(i) \o ". " \o title

\* lines 209-255: the i-th of n sections
Section(i, n, url_data, L) ==
    LET source == AddHyperlink(<<BoldRun("Source: ")>>, url_data.source_url,
                               url_data.source_url, L)                 \* lines 219-221
        count == Paragraph(<<BoldRun("Links Found: "),
                             PlainRun(ToString(Len(url_data.links)))>>, 0, "left")
        body == SectionBody(url_data, L)
        separator == IF i < n                                           \* lines 252-255
                     THEN << Paragraph(<<PlainRun(SeparatorLine)>>, 0, "center"),
                             Paragraph(<<>>, 0, "left") >>
                     ELSE <<>>
        head == <<Heading(SectionHeading(i, url_data.page_title), 1, "left")>>
    IN  IF ~XmlOk(url_data.page_title) THEN Rendered(<<>>, TRUE)    \* line 216
        ELSE IF source.raised
             THEN Rendered(head \o <<Paragraph(source.items, 0, "left")>>, TRUE)
             ELSE Rendered(head \o << Paragraph(source.items, 0, "left"), count,
                                      Paragraph(<<>>, 0, "left") >>
                                \o body.blocks
                                \o (IF body.raised THEN <<>> ELSE separator),
                           body.raised)

\* line 209: the loop over extracted_data, from section i on
RECURSIVE Sections(_, _, _, _)
Sections(data, i, n, L) ==
    IF i > n THEN Rendered(<<>>, FALSE)
    ELSE LET one == Section(i, n, data[i], L)
         IN  IF one.raised THEN one
             ELSE LET rest == Sections(data, i + 1, n, L)
                  IN  Rendered(one.blocks \o rest.blocks, rest.raised)

\* lines 176-266: the returned buffer, or None when an exception was caught
CreateDocument(title, data, L) ==
    LET front == << Heading(title, 0, "center"),
                    Paragraph(<<ItalicRun(GeneratedOn)>>, 0, "center"),
                    Paragraph(<<>>, 0, "left"),
                    Heading("Summary", 1, "left"),
                    SummaryParagraph(data),
                    PageBreak >>
        body == Sections(data, 1, Len(data), L)
    IN  IF ~XmlOk(title) \/ body.raised
        THEN [status |-> "None", blocks |-> <<>>]
        ELSE [status |-> "buffer", blocks |-> front \o body.blocks]

(***************************************************************************)
(* SpecDoc: one call of create_document on a list of results, for every    *)
(* list of at most MaxResults sample results and every behaviour of the    *)
(* library.                                                                *)
(***************************************************************************)
LinkTo(text, u) == [text |-> text, url |-> u, original_href |-> u]

\* results as the batch loop (lines 421-426) stores them
SampleResults ==
    { [source_url |-> "https://x/p1", page_title |-> "Error: Timeout for https://x/p1",
       links |-> <<>>, toc_tree |-> <<>>],
      [source_url |-> "https://x/p1", page_title |-> "Permissions",
       links |-> << LinkTo("Feature B", "https://x/release-notes/b"),
                    LinkTo("Feature A", "https://x/release-notes/a") >>,
       toc_tree |-> <<>>],
      [source_url |-> "https://y/p2", page_title |-> "List Views",
       links |-> << LinkTo("Feature A", "https://x/release-notes/a") >>,
       toc_tree |-> <<TocGroup>>],
      [source_url |-> "https://y/p2", page_title |-> "Nested",
       links |-> <<>>,
       toc_tree |-> <<TocNested, TocLeaf("Plain", None)>>],
      [source_url |-> "https://y/p2", page_title |-> "Permissions",
       links |-> <<>>, toc_tree |-> <<>>],
      [source_url |-> "https://x/p1", page_title |-> "Research",
       links |-> << LinkTo("R&D notes", "https://x/release-notes/e") >>,
       toc_tree |-> <<>>],
      [source_url |-> "https://x/p1", page_title |-> "Forms",
       links |-> << LinkTo("Form\ffeed", "https://x/release-notes/f") >>,
       toc_tree |-> <<>>] }

InitDoc ==
    /\ extracted_data \in SeqsUpTo(SampleResults, MaxResults) \ {<<>>}
    /\ mpc = "waiting"
    /\ processing = FALSE
    /\ url_lines = <<>>
    /\ urls = <<>>
    /\ idx = 0
    /\ lib = NoLib
    /\ docx_buffer = NoDoc
    /\ ExtractOff
    /\ HyperOff

\* lines 473-477: the Create & Download button
ClickDownload ==
    /\ mpc = "waiting"
    /\ extracted_data # <<>>                                            \* line 441
    /\ \E L \in Libs :
          /\ lib' = L
          /\ docx_buffer' = CreateDocument(DocTitle, extracted_data, L)
    /\ UNCHANGED <<main_vars, extract_vars, hyper_vars>>

NextDoc == ClickDownload

SpecDoc == InitDoc /\ [][NextDoc]_vars

(***************************************************************************)
(* Claims about create_document (checked under SpecDoc).                   *)
(***************************************************************************)
\* create_document returned a buffer
Produced == docx_buffer.status = "buffer"

Doc == docx_buffer.blocks

\* the sum of the lengths of the 'links' lists of the first k results
RECURSIVE SumLinkCounts(_, _)
SumLinkCounts(data, k) ==
    IF k = 0 THEN 0 ELSE SumLinkCounts(data, k - 1) + Len(data[k].links)

\* C8: in the produced document 'Total Links Extracted' is the sum over all
\* results of the length of the flat 'links' list, whether or not the result
\* has a TOC tree, and 'Total Sources Processed' is the number of results.
C8_SummaryCounts ==
    Produced =>
        \E b \in DOMAIN Doc :
            /\ Len(Doc[b].items) = 4
            /\ Doc[b].items[1].text = "Total Sources Processed: "
            /\ Doc[b].items[2].text = ToString(Len(extracted_data)) \o "\n"
            /\ Doc[b].items[3].text = "Total Links Extracted: "
            /\ Doc[b].items[4].text
                  = ToString(SumLinkCounts(extracted_data, Len(extracted_data)))

\* C8 witness: a document produced from two results, one of which has both a
\* TOC tree and flat links.
C8_Witness ==
    /\ Produced
    /\ Len(extracted_data) = 2
    /\ \E k \in DOMAIN extracted_data :
          extracted_data[k].toc_tree # <<>> /\ extracted_data[k].links # <<>>
    /\ SumLinkCounts(extracted_data, Len(extracted_data)) = 3

\* positions of the section headings: the headings after the page break
HeadIdx == {i \in 7..Len(Doc) : Doc[i].kind = "heading"}

\* the k-th smallest element of a set of numbers
Nth(S, k) == CHOOSE i \in S : Cardinality({j \in S : j < i}) = k - 1

\* the blocks of section k after its heading, source line, link count and
\* blank line, without the separator that follows every section but the last
BodyOf(k) ==
    LET n == Cardinality(HeadIdx)
        stop == IF k < n THEN Nth(HeadIdx, k + 1) - 3 ELSE Len(Doc)
    IN  SubSeq(Doc, Nth(HeadIdx, k) + 4, stop)

\* the nodes of a TOC tree in pre-order, each with its depth
RECURSIVE FlattenToc(_, _)
FlattenToc(nodes, depth) ==
    IF nodes = <<>> THEN <<>>
    ELSE << [text |-> Head(nodes).text, url |-> Head(nodes).url, depth |-> depth] >>
         \o FlattenToc(Head(nodes).children, depth + 1)
         \o FlattenToc(Tail(nodes), depth)

\* C9: in the produced document the body of each result's section is, when
\* the TOC tree is non-empty, one paragraph per TOC node in pre-order,
\* indented by the node's depth, a bold plain-text run for a node without url
\* and a hyperlink for a node with url, and nothing of the flat list; else,
\* when the flat list is non-empty, the numbered list of hyperlinks counted
\* from 1; else nothing.
C9_SectionBody ==
    Produced =>
        /\ Cardinality(HeadIdx) = Len(extracted_data)
        /\ \A k \in DOMAIN extracted_data :
              LET r == extracted_data[k]
                  body == BodyOf(k)
                  flat == FlattenToc(r.toc_tree, 0)
              IN  IF r.toc_tree # <<>>
                  THEN /\ Len(body) = Len(flat)
                       /\ \A j \in DOMAIN flat :
                             /\ body[j].kind = "paragraph"
                             /\ body[j].indent = flat[j].depth
                             /\ body[j].items
                                  = IF flat[j].url = None
                                    THEN <<BoldRun(flat[j].text)>>
                                    ELSE AddHyperlink(<<>>, flat[j].url, flat[j].text, lib).items
                  ELSE IF r.links # <<>>
                       THEN /\ Len(body) = 2 * Len(r.links)
                            /\ \A j \in DOMAIN r.links :
                                  /\ body[2 * j - 1].items
                                       = AddHyperlink(<<BoldRun(ToString(j) \o ". ")>>,
                                                      r.links[j].url, r.links[j].text, lib).items
                                  /\ body[2 * j].items = <<>>
                       ELSE body = <<>>

\* C9 witness: a produced document with a section whose result has a TOC
\* tree of a label with two link children and a non-empty flat list, and a
\* section whose result has only a flat list of two links.
C9_Witness ==
    /\ Produced
    /\ \E k \in DOMAIN extracted_data :
          /\ extracted_data[k].toc_tree = <<TocGroup>>
          /\ extracted_data[k].links # <<>>
          /\ Len(BodyOf(k)) = 3
    /\ \E k \in DOMAIN extracted_data :
          /\ extracted_data[k].toc_tree = <<>>
          /\ Len(extracted_data[k].links) = 2
          /\ Len(BodyOf(k)) = 4

\* C12: for every result list, a failure while embedding a hyperlink is
\* contained at that link: create_document returns a buffer, never the
\* failure value, and the buffer holds a section for every result.
C12_NeverAbortsDocument ==
    docx_buffer # NoDoc =>
        /\ docx_buffer.status = "buffer"
        /\ Cardinality(HeadIdx) = Len(extracted_data)

(***************************************************************************)
(* SpecHyperlink: one call of _add_hyperlink on a paragraph, for every     *)
(* sample url and text and every behaviour of the library.                 *)
(***************************************************************************)
HyperUrls ==
    {"", "ftp://x/release-notes/a", "http://x/release-notes/h",
     "https://x/release-notes/a", "https://x/release-notes/b"}

HyperTexts == {"Feature A", "R&D notes", "Form\ffeed"}

InitHyperlink ==
    /\ h_par \in {<<>>, <<BoldRun("1. ")>>}
    /\ h_url \in HyperUrls
    /\ h_text \in HyperTexts
    /\ h_out = NoCall
    /\ lib \in Libs
    /\ docx_buffer = NoDoc
    /\ ExtractOff
    /\ MainOff

CallAddHyperlink ==
    /\ h_out = NoCall
    /\ h_out' = AddHyperlink(h_par, h_url, h_text, lib)
    /\ UNCHANGED <<h_par, h_url, h_text, extract_vars, main_vars, doc_vars>>

NextHyperlink == CallAddHyperlink

SpecHyperlink == InitHyperlink /\ [][NextHyperlink]_vars

(***************************************************************************)
(* Claims about _add_hyperlink (checked under SpecHyperlink).              *)
(***************************************************************************)
\* the call has ended and both the markup-splicing tier and the
\* element-by-element tier failed
BothTiersFailed == h_out.tier = 3

\* C10: for every URL beginning with 'https://' or 'http://', when both the
\* markup-splicing tier and the element-by-element tier fail, the paragraph
\* ends up containing a run with the visible text followed by a run with the
\* literal URL.
C10_FallbackShowsUrl ==
    ( /\ StartsWith(h_url, "https://") \/ StartsWith(h_url, "http://")
      /\ BothTiersFailed )
    => \E i, j \in DOMAIN h_out.items :
          /\ Len(h_par) < i
          /\ i < j
          /\ h_out.items[i].kind = "run"
          /\ h_out.items[i].text = h_text
          /\ h_out.items[j].kind = "run"
          /\ h_out.items[j].text = h_url

\* C11: for every call with a URL that is empty or begins with neither
\* 'http://' nor 'https://', part.relate_to is never executed on any path of
\* the call, and the only thing added to the paragraph is a plain run of the
\* visible text.
C11_NonHttpNeverRelated ==
    (h_out # NoCall /\ PlainOnly(h_url)) =>
        /\ h_out.relate_calls = 0
        /\ ~h_out.raised
        /\ h_out.items = h_par \o <<PlainRun(h_text)>>

(***************************************************************************)
(* main(): the Extract button and the batch loop.                          *)
(***************************************************************************)
\* what the user may type on one line of the text area
SampleLines == {"https://x/p1", " https://y/p2 ", ""}

\* the content of the text area: the typed lines joined by newlines
RECURSIVE JoinLines(_)
JoinLines(lines) ==
    IF lines = <<>> THEN ""
    ELSE IF Len(lines) = 1 THEN lines[1]
    ELSE lines[1] \o "\n" \o JoinLines(Tail(lines))

\* url_input.split('\n')
RECURSIVE SplitLines(_)
SplitLines(text) ==
    IF ~Contains(text, "\n") THEN <<text>>
    ELSE LET i == CHOOSE k \in 1..Len(text) :
                     /\ SubSeq(text, k, k) = "\n"
                     /\ \A j \in 1..(k - 1) : SubSeq(text, j, j) # "\n"
         IN  <<SubSeq(text, 1, i - 1)>> \o SplitLines(SubSeq(text, i + 1, Len(text)))

NotBlank(line) == Strip(line) # ""

\* line 406: [url.strip() for url in url_input.split('\n') if url.strip()]
ParseUrls(url_input) ==
    LET kept == SelectSeq(SplitLines(url_input), NotBlank)
    IN  [k \in 1..Len(kept) |-> Strip(kept[k])]

\* lines 421-426: the entry appended for url, and the list after the append
Entry(u, extracted) ==
    [source_url |-> u, page_title |-> extracted.page_title,
     links |-> extracted.links, toc_tree |-> extracted.toc_tree]

\* (WithEntryFirst: insert(0, ...) in place of append)
WithEntryFirst(data, entry) == <<entry>> \o data
WithEntry(data, entry) == Append(data, entry)

\* the page shown for every URL of a batch: scenario A of the specification
BatchPages ==
    { << [href |-> "https://x/release-notes/a", text |-> "Feature A"],
         [href |-> "https://x/login",           text |-> "Login"],
         [href |-> "https://x/release-notes/a", text |-> "Feature A dup"] >> }

BatchTitles == {"Permissions"}

BatchTocs == { <<>>, <<TocGroup>> }

\* lines 404-410 and 433-436: the Extract button is clicked
ClickExtract ==
    /\ mpc = "waiting"
    /\ ~processing                                                 \* line 404
    /\ \E lines \in SeqsUpTo(SampleLines, MaxUrls) :
          LET url_input == JoinLines(lines)
              parsed == ParseUrls(url_input)
          IN  IF Strip(url_input) # "" /\ parsed # <<>>           \* lines 405, 408
              THEN /\ url_lines' = lines
                   /\ urls' = parsed
                   /\ processing' = TRUE
                   /\ extracted_data' = <<>>
                   /\ idx' = 1
                   /\ mpc' = "loop"
              ELSE UNCHANGED <<url_lines, urls, processing, extracted_data, idx, mpc>>
    /\ docx_buffer' = NoDoc
    /\ lib' = NoLib
    /\ UNCHANGED <<extract_vars, hyper_vars>>

\* lines 416-419: the loop calls extract_links_from_url for the next url
CallExtract ==
    /\ mpc = "loop"
    /\ idx <= Len(urls)
    /\ EnterExtract(urls[idx])
    /\ mpc' = "extracting"
    /\ UNCHANGED <<url_lines, urls, idx, processing, extracted_data, doc_vars, hyper_vars>>

\* lines 421-428: the call returned; its result is appended
AppendResult ==
    /\ mpc = "extracting"
    /\ epc = "returned"
    /\ extracted_data' = WithEntry(extracted_data, Entry(urls[idx], result))
    /\ idx' = idx + 1
    /\ mpc' = "loop"
    /\ url' = None
    /\ epc' = "off"
    /\ driver' = "none"
    /\ quit_count' = 0
    /\ polls' = 0
    /\ polled' = None
    /\ page_title' = None
    /\ raw_links' = <<>>
    /\ fault' = "none"
    /\ result' = NoResult
    /\ UNCHANGED <<url_lines, urls, processing, doc_vars, hyper_vars>>

\* lines 430-432: the loop has ended; the script reruns and waits
FinishBatch ==
    /\ mpc = "loop"
    /\ idx > Len(urls)
    /\ processing' = FALSE
    /\ mpc' = "waiting"
    /\ UNCHANGED <<url_lines, urls, idx, extracted_data, extract_vars, doc_vars, hyper_vars>>

\* The user touches a widget while the script is inside the batch loop of
\* lines 416-430: the framework stops the script at its next st.* call (the
\* status text of lines 417 and 430, the messages inside
\* extract_links_from_url, the progress bar of line 428) and reruns it.  The
\* stop is no Exception, so lines 159-167 do not catch it; the finally clause
\* of lines 168-170 releases a live driver.  Lines 431-432 are not reached:
\* the session keeps processing = True and the entries appended so far.
Interrupt ==
    /\ mpc \in {"loop", "extracting"}
    /\ mpc' = "waiting"
    /\ url' = None
    /\ epc' = "off"
    /\ driver' = "none"
    /\ quit_count' = 0
    /\ polls' = 0
    /\ polled' = None
    /\ page_title' = None
    /\ raw_links' = <<>>
    /\ fault' = "none"
    /\ result' = NoResult
    /\ UNCHANGED <<url_lines, urls, idx, processing, extracted_data, doc_vars, hyper_vars>>

(***************************************************************************)
(* Spec: a session of the application.                                     *)
(***************************************************************************)
Init ==
    /\ url_lines = <<>>
    /\ urls = <<>>
    /\ idx = 0
    /\ mpc = "waiting"
    /\ processing = FALSE                                           \* line 358
    /\ extracted_data = <<>>                                        \* line 356
    /\ ExtractOff
    /\ DocOff
    /\ HyperOff

Next ==
    \/ ClickExtract
    \/ CallExtract
    \/ GetSeleniumDriver /\ UNCHANGED <<main_vars, doc_vars, hyper_vars>>
    \/ DriverGet /\ UNCHANGED <<main_vars, doc_vars, hyper_vars>>
    \/ WaitPoll /\ UNCHANGED <<main_vars, doc_vars, hyper_vars>>
    \/ ReadTitle(BatchTitles) /\ UNCHANGED <<main_vars, doc_vars, hyper_vars>>
    \/ CrawlAnchors(BatchPages) /\ UNCHANGED <<main_vars, doc_vars, hyper_vars>>
    \/ BuildResult(BatchTocs) /\ UNCHANGED <<main_vars, doc_vars, hyper_vars>>
    \/ Finally /\ UNCHANGED <<main_vars, doc_vars, hyper_vars>>
    \/ AppendResult
    \/ FinishBatch
    \/ Interrupt
    \/ ClickDownload

Spec == Init /\ [][Next]_vars

(***************************************************************************)
(* Claims about the batch (checked under Spec).                            *)
(***************************************************************************)
\* the non-blank lines of the text area, trimmed, in the order typed
RECURSIVE TypedUrls(_)
TypedUrls(lines) ==
    IF lines = <<>> THEN <<>>
    ELSE IF Strip(Head(lines)) = "" THEN TypedUrls(Tail(lines))
    ELSE <<Strip(Head(lines))>> \o TypedUrls(Tail(lines))

\* a batch has run to its end (line 431) and the script waits for the next
\* click
BatchDone == mpc = "waiting" /\ urls # <<>> /\ ~processing

\* C7: after a batch over n input URLs the result list has n entries, the
\* k-th with source_url equal to the k-th input URL, also for URLs whose
\* extraction failed, and a produced document has one section per entry in
\* that order, headed by the 1-based index k.
C7_BatchOrder ==
    BatchDone =>
        /\ urls = TypedUrls(url_lines)
        /\ Len(extracted_data) = Len(urls)
        /\ \A k \in DOMAIN urls : extracted_data[k].source_url = urls[k]
        /\ Produced =>
              /\ Cardinality(HeadIdx) = Len(urls)
              /\ \A k \in DOMAIN urls :
                    LET h == Nth(HeadIdx, k)
                    IN  /\ Doc[h].items[1].text
                              = ToString(k) \o ". " \o extracted_data[k].page_title
                        /\ \E i \in DOMAIN Doc[h + 1].items :
                              Doc[h + 1].items[i].text = urls[k]

\* C7 witness: a batch over two different URLs, the first of which timed
\* out, has ended and its document has been produced.
C7_Witness ==
    /\ BatchDone
    /\ Produced
    /\ Len(urls) = 2
    /\ urls[1] # urls[2]
    /\ extracted_data[1].page_title = "Error: Timeout for " \o urls[1]
    /\ extracted_data[2].links # <<>>

\* C13: create_document is invoked only when every extraction of the most
\* recently started batch has finished and its result has been appended, so
\* the document has one section per URL of that batch.
C13_DocumentOnlyAfterWholeBatch ==
    docx_buffer # NoDoc =>
        /\ idx > Len(urls)
        /\ Len(extracted_data) = Len(urls)
        /\ Produced => Cardinality(HeadIdx) = Len(urls)

====
